---- MODULE Spec2Model ----
(***************************************************************************)
(* A model of src/main.py: the literature-digest pipeline.  One run of     *)
(* main() is a sequence of steps (collect, time window, dedupe, keyword    *)
(* filter, rank, LLM relevance, select, send, save); the persisted state   *)
(* file {last_run, sent_ids} links the runs.                               *)
(*                                                                         *)
(* Strings are sequences of one-character strings, so that lower(),        *)
(* strip() and normalize_title() are computed, not assumed.  Python's None *)
(* is the empty tuple <<>> and a present value v is <<v>>.                 *)
(***************************************************************************)
EXTENDS Integers, Sequences, FiniteSets, TLC

\* ------------------------------------------------------------------ bounds

\* Number of runs of main() (wall-clock ticks) explored.
MaxRuns == 3
\* Longest aggregated collector output explored.
MaxFeed == 2
\* Stands for the 5000 of sent_ids[-5000:], scaled so that eviction happens.
SentCap == 2

\* ------------------------------------------------------------- text helpers

None == <<>>
Some(v) == <<v>>
IsNone(o) == o = <<>>

Max(a, b) == IF a >= b THEN a ELSE b
Min(a, b) == IF a <= b THEN a ELSE b

\* str.lower() on one character of the alphabet used by the papers below.
LowerChar(c) ==
  CASE c = "A" -> "a"
    [] c = "B" -> "b"
    [] c = "X" -> "x"
    [] OTHER -> c

Lower(s) == [i \in 1..Len(s) |-> LowerChar(s[i])]

\* The class [a-z0-9] of normalize_title's regular expression.
IsLowerAlnum(c) == c \in {"a", "b", "c", "d", "e", "x", "1"}

IsSpace(c) == c = " "

RECURSIVE FilterChars(_)
FilterChars(s) ==
  IF s = <<>> THEN <<>>
  ELSE IF IsLowerAlnum(Head(s)) THEN <<Head(s)>> \o FilterChars(Tail(s))
       ELSE FilterChars(Tail(s))

\* normalize_title: lower-case, then delete every run of characters that is
\* not in [a-z0-9].
normalize_title(title) == FilterChars(Lower(title))

RECURSIVE LStrip(_)
LStrip(s) ==
  IF s # <<>> /\ IsSpace(Head(s)) THEN LStrip(Tail(s)) ELSE s

RECURSIVE RStrip(_)
RStrip(s) ==
  IF s # <<>> /\ IsSpace(s[Len(s)]) THEN RStrip(SubSeq(s, 1, Len(s) - 1)) ELSE s

\* str.strip()
Strip(s) == RStrip(LStrip(s))

\* title_low.startswith(prefix)
StartsWith(s, prefix) ==
  /\ Len(prefix) <= Len(s)
  /\ SubSeq(s, 1, Len(prefix)) = prefix

\* The fingerprint computed in dedupe and again when main records sent_ids:
\* "doi:" + doi.lower().strip() when the DOI is truthy, else
\* "title:" + normalize_title(title).
Fingerprint(p) ==
  IF p.doi # <<>> THEN <<"doi">> \o Strip(Lower(p.doi))
  ELSE <<"title">> \o normalize_title(p.title)

\* ------------------------------------------------------------------ papers

\* What the feeds can report.  date is the entry's parseable date (None when
\* no candidate field parses, and then published is the collection time);
\* words are the keywords that occur in "title abstract".
Universe ==
  << [id |-> 1, title |-> <<"a", "b", "!">>, doi |-> <<" ", "x", "1">>,
      date |-> Some(0), source_group |-> "rss", words |-> {"grid"}],
     [id |-> 2, title |-> <<"c">>, doi |-> <<"X", "1", " ">>,
      date |-> None, source_group |-> "nature", words |-> {"grid"}],
     [id |-> 3, title |-> <<"A", " ", "B">>, doi |-> <<>>,
      date |-> None, source_group |-> "rss", words |-> {"grid", "resilience"}],
     [id |-> 4, title |-> <<"d", "-", "e">>, doi |-> <<>>,
      date |-> Some(1), source_group |-> "arxiv", words |-> {"grid", "resilience"}] >>

PaperIds == 1..Len(Universe)

\* The aggregated collector outputs explored: every sequence of distinct
\* entries of at most MaxFeed papers.
RECURSIVE FeedsOfLen(_)
FeedsOfLen(n) ==
  IF n = 0 THEN {<<>>}
  ELSE {Append(f, i) : f \in FeedsOfLen(n - 1), i \in PaperIds}

NoRepeat(f) == \A i, j \in 1..Len(f) : i # j => f[i] # f[j]

Feeds == UNION {{f \in FeedsOfLen(n) : NoRepeat(f)} : n \in 0..MaxFeed}

\* A Paper as the collectors build it (collect_rss_sources, collect_arxiv):
\* published defaults to the time of collection, the annotations to their
\* dataclass defaults.
MakePaper(e, now) ==
  [id |-> e.id, title |-> e.title, doi |-> e.doi,
   published |-> IF IsNone(e.date) THEN now ELSE e.date[1],
   source_group |-> e.source_group, words |-> e.words,
   keyword_hits |-> 0, group_hits |-> 0,
   relevance_score |-> None, relevance_reason |-> None]

\* papers += collect_rss_sources(...) ...: the aggregated collector output.
Collect(feed, now) == [i \in 1..Len(feed) |-> MakePaper(Universe[feed[i]], now)]

Range(s) == {s[i] : i \in 1..Len(s)}

Fingerprints(ps) == [i \in 1..Len(ps) |-> Fingerprint(ps[i])]

Ids(ps) == [i \in 1..Len(ps) |-> ps[i].id]

\* ----------------------------------------------------------- configuration

\* The configurations explored.  lookback_hours is counted in clock ticks.
BaseConfig ==
  [lookback_hours |-> 1,
   keywords |-> <<"grid", "resilience">>,
   min_keyword_hits |-> 1,
   required_groups |-> <<{"grid", "power"}>>,
   min_groups_matched |-> 0,
   exclude_title_prefixes |-> << <<"r", "e", ":">> >>,
   exclude_keywords |-> <<"retracted">>,
   source_weight |-> [nature |-> 1]]

Configs ==
  {[f \in DOMAIN BaseConfig \cup DOMAIN v |->
      IF f \in DOMAIN v THEN v[f] ELSE BaseConfig[f]] :
    v \in {[max_papers |-> 2, max_llm_eval |-> 2, require |-> FALSE, min_relevance_score |-> 0],
           [max_papers |-> 1, max_llm_eval |-> 1, require |-> FALSE, min_relevance_score |-> 2],
           [max_papers |-> 2, max_llm_eval |-> 1, require |-> TRUE, min_relevance_score |-> 0,
            min_keyword_hits |-> 2],
           [max_papers |-> 1, max_llm_eval |-> 2, require |-> TRUE, min_relevance_score |-> 2]}}

\* What one llm_relevance call can come to: an exception, or a score.
LlmOutcomes == {"fail", "low", "high"}
LlmScore(o) == IF o = "low" THEN 1 ELSE 3

\* ---------------------------------------------------------------- pipeline

\* A dedupe that does not add the fingerprints it keeps to the seen set.
RECURSIVE DedupeSentOnly(_, _)
DedupeSentOnly(ps, seen) ==
  IF ps = <<>> THEN <<>>
  ELSE IF Fingerprint(Head(ps)) \in seen THEN DedupeSentOnly(Tail(ps), seen)
       ELSE <<Head(ps)>> \o DedupeSentOnly(Tail(ps), seen)

\* A dedupe that keeps the last occurrence of a fingerprint, not the first.
RECURSIVE DedupeKeepLast(_, _)
DedupeKeepLast(ps, seen) ==
  IF ps = <<>> THEN <<>>
  ELSE IF \/ Fingerprint(Head(ps)) \in seen
          \/ \E i \in 1..Len(Tail(ps)) : Fingerprint(Tail(ps)[i]) = Fingerprint(Head(ps))
       THEN DedupeKeepLast(Tail(ps), seen)
       ELSE <<Head(ps)>> \o DedupeKeepLast(Tail(ps), seen)

\* The loop of dedupe: left to right, skipping a paper whose fingerprint is
\* in seen and adding the fingerprint of each paper kept.
RECURSIVE DedupeFrom(_, _)
DedupeFrom(ps, seen) ==
  IF ps = <<>> THEN <<>>
  ELSE IF Fingerprint(Head(ps)) \in seen THEN DedupeFrom(Tail(ps), seen)
       ELSE <<Head(ps)>> \o DedupeFrom(Tail(ps), seen \cup {Fingerprint(Head(ps))})

dedupe(ps, sent_ids) == DedupeFrom(ps, Range(sent_ids))

\* A window that is exclusive at its start.
FilterByDateStrict(ps, start) == SelectSeq(ps, LAMBDA p : p.published > start)

filter_by_date(ps, start) == SelectSeq(ps, LAMBDA p : p.published >= start)

\* keyword_score: one per configured keyword that occurs in the text.
keyword_score(words, keywords) ==
  Cardinality({k \in 1..Len(keywords) : keywords[k] \in words})

\* group_score: the configured groups with at least one keyword in the text.
group_score(words, groups) ==
  Cardinality({g \in 1..Len(groups) : groups[g] \cap words # {}})

should_exclude_title(title, prefixes) ==
  \E k \in 1..Len(prefixes) : StartsWith(Lower(Strip(title)), Lower(prefixes[k]))

\* Lines 488-499: annotate keyword_hits and group_hits, drop excluded titles
\* and texts with an exclusion keyword.
Annotate(ps, c) ==
  LET kept == SelectSeq(ps, LAMBDA p :
                /\ ~should_exclude_title(p.title, c.exclude_title_prefixes)
                /\ ~(\E k \in 1..Len(c.exclude_keywords) : c.exclude_keywords[k] \in p.words))
  IN [i \in 1..Len(kept) |->
        [kept[i] EXCEPT !.keyword_hits = keyword_score(kept[i].words, c.keywords),
                        !.group_hits = group_score(kept[i].words, c.required_groups)]]

\* Lines 501-504: the minimum-hit thresholds.
Thresholds(ps, c) ==
  LET byHits == SelectSeq(ps, LAMBDA p :
                  p.keyword_hits >= c.min_keyword_hits \/ c.keywords = <<>>)
  IN IF c.min_groups_matched > 0
     THEN SelectSeq(byHits, LAMBDA p : p.group_hits >= c.min_groups_matched)
     ELSE byHits

\* A descending sort that reverses the order of the elements with equal keys
\* (an ascending stable sort, then reversed).
SortDescTiesReversed(s, k) ==
  LET n == Len(s)
      pos(i) == 1 + Cardinality({j \in 1..n : k[j] > k[i] \/ (k[j] = k[i] /\ j > i)})
  IN [r \in 1..n |-> s[CHOOSE i \in 1..n : pos(i) = r]]

\* list.sort(key=..., reverse=True): descending and stable, equal keys keep
\* their order.  k is the sequence of the keys of s.
StableSortDesc(s, k) ==
  LET n == Len(s)
      pos(i) == 1 + Cardinality({j \in 1..n : k[j] > k[i] \/ (k[j] = k[i] /\ j < i)})
  IN [r \in 1..n |-> s[CHOOSE i \in 1..n : pos(i) = r]]

\* papers.sort(key=lambda p: p.keyword_hits, reverse=True)
SortByHits(ps) == StableSortDesc(ps, [i \in 1..Len(ps) |-> ps[i].keyword_hits])

\* final_score: relevance_score if it is not None, else keyword_hits, plus
\* source_weight.get(source_group, 0).
final_score(p, c) ==
  LET base == IF IsNone(p.relevance_score) THEN p.keyword_hits ELSE p.relevance_score[1]
      weight == IF p.source_group \in DOMAIN c.source_weight
                THEN c.source_weight[p.source_group] ELSE 0
  IN base + weight

SortByFinalScore(ps, c) ==
  StableSortDesc(ps, [i \in 1..Len(ps) |-> final_score(ps[i], c)])

\* A threshold filter that lets the unscored papers through.
MinScoreFilterLenient(ps, c, hasClient) ==
  IF hasClient /\ c.min_relevance_score > 0
  THEN SelectSeq(ps, LAMBDA p :
         IsNone(p.relevance_score) \/ p.relevance_score[1] >= c.min_relevance_score)
  ELSE ps

\* Lines 548-549: (p.relevance_score or 0) >= min_llm_score, only with a
\* client and a positive threshold.
MinScoreFilter(ps, c, hasClient) ==
  IF hasClient /\ c.min_relevance_score > 0
  THEN SelectSeq(ps, LAMBDA p :
         (IF IsNone(p.relevance_score) THEN 0 ELSE p.relevance_score[1])
           >= c.min_relevance_score)
  ELSE ps

\* papers[: max_papers]
Truncate(ps, c) == SubSeq(ps, 1, Min(Len(ps), c.max_papers))

\* sent_ids[:5000]: keeps the oldest entries.
KeepOldest(ids) == SubSeq(ids, 1, Min(Len(ids), SentCap))

\* sent_ids[-5000:]
KeepMostRecent(ids) == SubSeq(ids, Max(1, Len(ids) - SentCap + 1), Len(ids))

\* now_utc.isoformat() and dateutil's parse of it.  A last_run that is
\* present is a tagged text; only the "iso" texts parse.
IsoFormat(t) == <<"iso", t>>
Parseable(last_run) == Len(last_run) = 2 /\ last_run[1] = "iso"
ParseIso(last_run) == last_run[2]

\* Lines 458-465.
WindowStart(last_run, now, c) ==
  IF ~IsNone(last_run) /\ Parseable(last_run)
  THEN ParseIso(last_run)
  ELSE now - c.lookback_hours

\* ------------------------------------------------------------ run decisions

\* The persisted state when no state file exists (load_state).
EmptyState == [last_run |-> None, sent_ids |-> <<>>]

\* if not args.no_email and not args.dry_run
ShouldSend(a) == ~a.no_email /\ ~a.dry_run

\* A save that is not guarded by the dry-run flag.
ShouldSaveAlways(a) == TRUE

\* if not args.dry_run
ShouldSave(a) == ~a.dry_run

\* client = None if args.no_llm else build_client(); build_client returns
\* None without DEEPSEEK_API_KEY.
BuildClient(no_llm, api_key) == IF no_llm THEN FALSE ELSE api_key

\* A requirement check that never raises.
RequireFailsNever(c, hasClient) == FALSE

\* if require_llm and not client: raise RuntimeError
RequireFails(c, hasClient) == c.require /\ ~hasClient

\* A relevance failure that leaves a score of 0 behind.
OnRelevanceErrorZero(p) == [p EXCEPT !.relevance_score = Some(0)]

\* except Exception: print a warning; the paper is left as it was.
OnRelevanceError(p) == p

\* p.relevance_score = int(data.get("score", 0)); p.relevance_reason = str(...)
OnRelevanceReply(p, o) ==
  [p EXCEPT !.relevance_score = Some(LlmScore(o)), !.relevance_reason = Some("reason")]

\* A send_email whose exception is swallowed: the run goes on to save.
OnSendErrorIgnored == "sent"

\* send_email raises (incomplete SMTP settings, login or sendmail failure)
\* and nothing in main catches it: the run ends there.
OnSendError == "aborted"

\* An empty run that leaves last_run alone.
EmptyRunStateKeep(st, now) == st

\* Lines 516-518: state["last_run"] = now_utc.isoformat(); save_state(...)
EmptyRunState(st, now) == [st EXCEPT !.last_run = IsoFormat(now)]

\* A save that records the fingerprints and leaves last_run alone.
RunStateKeepLastRun(st, ps, now) ==
  [sent_ids |-> KeepMostRecent(st.sent_ids \o Fingerprints(ps)),
   last_run |-> st.last_run]

\* A save that keeps the oldest entries of sent_ids.
RunStateKeepOldest(st, ps, now) ==
  [sent_ids |-> KeepOldest(st.sent_ids \o Fingerprints(ps)),
   last_run |-> IsoFormat(now)]

\* Lines 585-593: append the fingerprint of every emitted paper, keep the
\* last 5000, set last_run, save.
RunState(st, ps, now) ==
  [sent_ids |-> KeepMostRecent(st.sent_ids \o Fingerprints(ps)),
   last_run |-> IsoFormat(now)]

\* ------------------------------------------------------------------- state

VARIABLES
  state,        \* the state file: [last_run, sent_ids]
  appended,     \* history: every fingerprint a run appended to sent_ids, in order
  cfg,          \* the configuration file
  clock,        \* wall clock, one tick per run
  pc,           \* where the current run of main() is
  args,         \* the command line of the run: --dry-run, --no-email
  available,    \* whether --no-llm and DEEPSEEK_API_KEY allow the run a client
  now_utc,      \* datetime.now(timezone.utc) of the run
  loaded,       \* the state as load_state returned it
  window_start, \* start of the run's time window
  collected,    \* the aggregated collector output of the run
  survivors,    \* the papers after the keyword filter (line 504)
  papers,       \* the run's list "papers"
  client,       \* whether the run has an LLM client
  idx,          \* the next paper of the relevance loop
  failed,       \* ids of the papers whose relevance call raised
  called,       \* ids of the papers llm_relevance was called for, in order
  digest,       \* None, or Some(papers of the email that was built)
  transmitted,  \* whether send_email returned normally
  exit_code     \* None while running, Some(0) on return 0, Some(1) on an exception

vars == <<state, appended, cfg, clock, pc, args, available, now_utc, loaded, window_start,
          collected, survivors, papers, client, idx, failed, called, digest,
          transmitted, exit_code>>

\* --no-llm and the API key only decide together whether there is a client:
\* the run keeps that one fact (available).
Args == [dry_run : BOOLEAN, no_email : BOOLEAN]

\* A state file is written only by the program, except that last_run may
\* hold a text dateutil cannot parse before the first run.
Init ==
  /\ state \in {EmptyState, [EmptyState EXCEPT !.last_run = <<"garbage">>]}
  /\ appended = <<>>
  /\ cfg \in Configs
  /\ clock = 0
  /\ pc = "idle"
  /\ args = [dry_run |-> FALSE, no_email |-> FALSE]
  /\ available = FALSE
  /\ now_utc = 0
  /\ loaded = state
  /\ window_start = 0
  /\ collected = <<>>
  /\ survivors = <<>>
  /\ papers = <<>>
  /\ client = FALSE
  /\ idx = 1
  /\ failed = {}
  /\ called = <<>>
  /\ digest = None
  /\ transmitted = FALSE
  /\ exit_code = None

\* Lines 440-478: parse the arguments, load configuration and state, read
\* the clock, compute window_start, collect.
Begin ==
  /\ pc = "idle"
  /\ clock < MaxRuns
  /\ \E a \in Args, feed \in Feeds, no_llm \in BOOLEAN, api_key \in BOOLEAN :
       /\ args' = a
       /\ available' = BuildClient(no_llm, api_key)
       /\ clock' = clock + 1
       /\ now_utc' = clock + 1
       /\ loaded' = state
       /\ window_start' = WindowStart(state.last_run, clock + 1, cfg)
       /\ collected' = Collect(feed, clock + 1)
       /\ papers' = Collect(feed, clock + 1)
  /\ survivors' = <<>>
  /\ client' = FALSE
  /\ idx' = 1
  /\ failed' = {}
  /\ called' = <<>>
  /\ digest' = None
  /\ transmitted' = FALSE
  /\ exit_code' = None
  /\ pc' = "collected"
  /\ UNCHANGED <<state, appended, cfg>>

\* Line 480.
FilterByDate ==
  /\ pc = "collected"
  /\ papers' = filter_by_date(papers, window_start)
  /\ pc' = "windowed"
  /\ UNCHANGED <<state, appended, cfg, clock, args, available, now_utc, loaded, window_start,
                 collected, survivors, client, idx, failed, called, digest,
                 transmitted, exit_code>>

\* Line 481.
Dedupe ==
  /\ pc = "windowed"
  /\ papers' = dedupe(papers, loaded.sent_ids)
  /\ pc' = "deduped"
  /\ UNCHANGED <<state, appended, cfg, clock, args, available, now_utc, loaded, window_start,
                 collected, survivors, client, idx, failed, called, digest,
                 transmitted, exit_code>>

\* Lines 483-504.
KeywordFilter ==
  /\ pc = "deduped"
  /\ papers' = Thresholds(Annotate(papers, cfg), cfg)
  /\ survivors' = Thresholds(Annotate(papers, cfg), cfg)
  /\ pc' = "filtered"
  /\ UNCHANGED <<state, appended, cfg, clock, args, available, now_utc, loaded, window_start,
                 collected, client, idx, failed, called, digest,
                 transmitted, exit_code>>

\* Lines 507-515: no paper is left; build the "no new papers" email and,
\* unless disabled, send it.
SendEmpty ==
  /\ pc = "filtered"
  /\ papers = <<>>
  /\ digest' = Some(<<>>)
  /\ IF ShouldSend(args)
     THEN \E ok \in BOOLEAN :
            /\ transmitted' = ok
            /\ pc' = IF ok THEN "sent_empty" ELSE OnSendError
            /\ exit_code' = IF pc' = "aborted" THEN Some(1) ELSE None
     ELSE /\ transmitted' = FALSE
          /\ pc' = "sent_empty"
          /\ exit_code' = None
  /\ UNCHANGED <<state, appended, cfg, clock, args, available, now_utc, loaded, window_start,
                 collected, survivors, papers, client, idx, failed, called>>

\* Lines 516-520.
SaveEmpty ==
  /\ pc = "sent_empty"
  /\ state' = IF ShouldSave(args) THEN EmptyRunState(loaded, now_utc) ELSE state
  /\ pc' = "done"
  /\ exit_code' = Some(0)
  /\ UNCHANGED <<appended, cfg, clock, args, available, now_utc, loaded, window_start,
                 collected, survivors, papers, client, idx, failed, called, digest,
                 transmitted>>
\* Line 522.
Phase1Sort ==
  /\ pc = "filtered"
  /\ papers # <<>>
  /\ papers' = SortByHits(papers)
  /\ pc' = "sorted"
  /\ UNCHANGED <<state, appended, cfg, clock, args, available, now_utc, loaded, window_start,
                 collected, survivors, client, idx, failed, called, digest,
                 transmitted, exit_code>>

\* The papers the relevance loop visits: papers[:max_eval].
EvalCount(ps, c) == Min(Len(ps), c.max_llm_eval)

\* Lines 524-526 and 537-538: build the client, raise when the LLM is
\* required and there is none.
MakeClient ==
  /\ pc = "sorted"
  /\ client' = available
  /\ IF RequireFails(cfg, available)
     THEN pc' = "aborted" /\ exit_code' = Some(1)
     ELSE /\ pc' = IF available /\ EvalCount(papers, cfg) >= 1
                   THEN "scoring" ELSE "scored"
          /\ exit_code' = None
  /\ UNCHANGED <<state, appended, cfg, clock, args, available, now_utc, loaded, window_start,
                 collected, survivors, papers, idx, failed, called, digest,
                 transmitted>>

\* Lines 530-536: one turn of the relevance loop.
LlmRelevance ==
  /\ pc = "scoring"
  /\ idx <= EvalCount(papers, cfg)
  /\ \E o \in LlmOutcomes :
       /\ papers' = [papers EXCEPT ![idx] =
                       IF o = "fail" THEN OnRelevanceError(@) ELSE OnRelevanceReply(@, o)]
       /\ failed' = IF o = "fail" THEN failed \cup {papers[idx].id} ELSE failed
  /\ called' = Append(called, papers[idx].id)
  /\ idx' = idx + 1
  /\ pc' = IF idx + 1 > EvalCount(papers, cfg) THEN "scored" ELSE "scoring"
  /\ UNCHANGED <<state, appended, cfg, clock, args, available, now_utc, loaded, window_start,
                 collected, survivors, client, digest, transmitted, exit_code>>

\* Lines 540-546.
FinalSort ==
  /\ pc = "scored"
  /\ papers' = SortByFinalScore(papers, cfg)
  /\ pc' = "ranked"
  /\ UNCHANGED <<state, appended, cfg, clock, args, available, now_utc, loaded, window_start,
                 collected, survivors, client, idx, failed, called, digest,
                 transmitted, exit_code>>

\* Lines 547-549.
MinScore ==
  /\ pc = "ranked"
  /\ papers' = MinScoreFilter(papers, cfg, client)
  /\ pc' = "thresholded"
  /\ UNCHANGED <<state, appended, cfg, clock, args, available, now_utc, loaded, window_start,
                 collected, survivors, client, idx, failed, called, digest,
                 transmitted, exit_code>>

\* Lines 550-579: truncate, summarise, build the email.  The summaries
\* (llm_summary or the placeholders) change no paper's place in the list,
\* and a failed summary call is caught per paper.
Select ==
  /\ pc = "thresholded"
  /\ papers' = Truncate(papers, cfg)
  /\ digest' = Some(Truncate(papers, cfg))
  /\ pc' = "built"
  /\ UNCHANGED <<state, appended, cfg, clock, args, available, now_utc, loaded, window_start,
                 collected, survivors, client, idx, failed, called,
                 transmitted, exit_code>>

\* Lines 581-582.
Send ==
  /\ pc = "built"
  /\ IF ShouldSend(args)
     THEN \E ok \in BOOLEAN :
            /\ transmitted' = ok
            /\ pc' = IF ok THEN "sent" ELSE OnSendError
            /\ exit_code' = IF pc' = "aborted" THEN Some(1) ELSE None
     ELSE /\ transmitted' = FALSE
          /\ pc' = "sent"
          /\ exit_code' = None
  /\ UNCHANGED <<state, appended, cfg, clock, args, available, now_utc, loaded, window_start,
                 collected, survivors, papers, client, idx, failed, called, digest>>

\* Lines 584-596.
Save ==
  /\ pc = "sent"
  /\ IF ShouldSave(args)
     THEN /\ state' = RunState(loaded, papers, now_utc)
          /\ appended' = appended \o Fingerprints(papers)
     ELSE UNCHANGED <<state, appended>>
  /\ pc' = "done"
  /\ exit_code' = Some(0)
  /\ UNCHANGED <<cfg, clock, args, available, now_utc, loaded, window_start,
                 collected, survivors, papers, client, idx, failed, called, digest,
                 transmitted>>

\* Lines 599-600: the process ends, by sys.exit(main()) or by the uncaught
\* exception; nothing but the state file outlives it.
Exit ==
  /\ pc \in {"done", "aborted"}
  /\ pc' = "idle"
  /\ args' = [dry_run |-> FALSE, no_email |-> FALSE]
  /\ available' = FALSE
  /\ now_utc' = 0
  /\ loaded' = state
  /\ window_start' = 0
  /\ collected' = <<>>
  /\ survivors' = <<>>
  /\ papers' = <<>>
  /\ client' = FALSE
  /\ idx' = 1
  /\ failed' = {}
  /\ called' = <<>>
  /\ digest' = None
  /\ transmitted' = FALSE
  /\ exit_code' = None
  /\ UNCHANGED <<state, appended, cfg, clock>>

Next ==
  \/ Begin
  \/ FilterByDate
  \/ Dedupe
  \/ KeywordFilter
  \/ SendEmpty
  \/ SaveEmpty
  \/ Phase1Sort
  \/ MakeClient
  \/ LlmRelevance
  \/ FinalSort
  \/ MinScore
  \/ Select
  \/ Send
  \/ Save
  \/ Exit

Spec == Init /\ [][Next]_vars

TypeOK ==
  /\ pc \in {"idle", "collected", "windowed", "deduped", "filtered", "sent_empty",
             "sorted", "scoring", "scored", "ranked", "thresholded", "built",
             "sent", "done", "aborted"}
  /\ clock \in 0..MaxRuns
  /\ Len(state.sent_ids) <= SentCap
  /\ exit_code \in {None, Some(0), Some(1)}

\* ------------------------------------------------------------------ claims

NoDuplicates(s) == \A i, j \in 1..Len(s) : i # j => s[i] # s[j]

\* The email of the run has been built (with papers or without).
DigestBuilt == digest # None
Emitted == IF digest = None THEN <<>> ELSE digest[1]

\* The run is between the building of its email and its save: appended
\* holds what the prior runs recorded, and nothing of this run.
BeforeSave == pc \in {"built", "sent", "sent_empty", "aborted"} /\ DigestBuilt

\* C1 as stated: every paper of a run's digest has a fingerprint that no
\* other paper of the digest has and that no prior run ever recorded in
\* sent_ids.
C1_NeverRecordedBefore ==
  BeforeSave =>
    /\ NoDuplicates(Fingerprints(Emitted))
    /\ \A i \in 1..Len(Emitted) : Fingerprint(Emitted[i]) \notin Range(appended)

\* C1 as amended: every paper of a run's digest has a fingerprint that no
\* other paper of the digest has and that is not among the SentCap (5000)
\* fingerprints most recently recorded by the prior runs, which is the
\* sent_ids list the run loaded.
C1_NotAmongMostRecent ==
  BeforeSave =>
    /\ NoDuplicates(Fingerprints(Emitted))
    /\ \A i \in 1..Len(Emitted) :
         /\ Fingerprint(Emitted[i]) \notin Range(KeepMostRecent(appended))
         /\ Fingerprint(Emitted[i]) \notin Range(loaded.sent_ids)

\* A digest with a paper, built by a run that also collected a paper whose
\* fingerprint a prior run recorded and the state file still holds.
C1_Witness ==
  /\ pc = "built"
  /\ Len(Emitted) >= 1
  /\ \E i \in 1..Len(collected) : Fingerprint(collected[i]) \in Range(loaded.sent_ids)

\* C2: the persisted sent_ids is the last SentCap (5000) entries of
\* everything the completed non-dry-run runs appended, in append order; so
\* when those fingerprints are pairwise distinct its length is
\* min(SentCap, k1 + ... + kN) and only the oldest entries are ever gone.
C2_MostRecentInOrder ==
  /\ state.sent_ids = KeepMostRecent(appended)
  /\ NoDuplicates(appended) =>
       /\ Len(state.sent_ids) = Min(SentCap, Len(appended))
       /\ \A i \in 1..Len(state.sent_ids) :
            state.sent_ids[i] = appended[Len(appended) - Len(state.sent_ids) + i]

\* A save has evicted the oldest entry: more was appended than the cap
\* holds, all of it distinct.
C2_Witness ==
  /\ pc = "done"
  /\ Len(appended) > SentCap
  /\ NoDuplicates(appended)
  /\ state.sent_ids # loaded.sent_ids

\* The ids of the papers a run selects up to the keyword filter (line 504),
\* from a persisted state, a feed and a clock: what the steps above compute.
Selected(st, feed, now, c) ==
  Ids(Thresholds(Annotate(dedupe(filter_by_date(Collect(feed, now),
                                                WindowStart(st.last_run, now, c)),
                                 st.sent_ids), c), c))

\* The run has ended, by return 0 or by an exception.
RunEnded == pc \in {"done", "aborted"}

\* The run went past the keyword filter.
Filtered == pc \notin {"idle", "collected", "windowed", "deduped"}

\* C3: a dry run never writes the state file: while it runs and when it has
\* ended, last_run and sent_ids are what the run loaded; and a repeat with
\* the same feeds and clock, computed from the state as it is after the run,
\* selects the papers this run selected.
C3_DryRunWritesNothing ==
  (pc # "idle" /\ args.dry_run) =>
    /\ state = loaded
    /\ window_start = WindowStart(state.last_run, now_utc, cfg)
    /\ (Filtered => Selected(state, Ids(collected), now_utc, cfg) = Ids(survivors))
    /\ ~transmitted

\* A dry run that built a digest with a paper has ended, in a later run
\* than the first (the state file holds fingerprints).
C3_Witness ==
  /\ pc = "done"
  /\ args.dry_run
  /\ Len(Emitted) >= 1
  /\ loaded.sent_ids # <<>>

\* A non-dry-run run in which no paper survived the filter has ended.
EmptyRunEnded == RunEnded /\ Filtered /\ survivors = <<>> /\ ~args.dry_run

\* What C4 promises of such a run: the "no new papers" digest, exit code 0,
\* last_run advanced to this run's time so that the next run's window
\* starts there, sent_ids untouched.
EmptyRunAdvanced ==
  /\ digest = Some(<<>>)
  /\ pc = "done"
  /\ exit_code = Some(0)
  /\ state.last_run = IsoFormat(now_utc)
  /\ WindowStart(state.last_run, now_utc + 1, cfg) = now_utc
  /\ state.sent_ids = loaded.sent_ids

\* C4 as stated: every non-dry-run run in which no paper survives filtering
\* produces the "no new papers" digest, exits with 0 and advances last_run.
C4_EmptyRunAlwaysAdvances == EmptyRunEnded => EmptyRunAdvanced

\* C4 as amended: so does every such run whose digest transmission does not
\* fail (email disabled, or send_email returned); when send_email raises,
\* the run ends with the exception and the state file is not written.
C4_EmptyRunAdvancesUnlessSendFails ==
  EmptyRunEnded =>
    IF args.no_email \/ transmitted
    THEN EmptyRunAdvanced
    ELSE pc = "aborted" /\ exit_code = Some(1) /\ state = loaded

\* An empty run that collected papers has moved last_run on from the
\* earlier run's time, after sending the empty digest.
C4_Witness ==
  /\ EmptyRunEnded
  /\ pc = "done"
  /\ transmitted
  /\ collected # <<>>
  /\ Parseable(loaded.last_run)
  /\ ParseIso(loaded.last_run) < now_utc

\* The run is one in which the LLM is required and no client is available.
RequiredButUnavailable == cfg.require /\ ~available

\* The abort C5 speaks of.
AbortedUnsent ==
  /\ pc = "aborted"
  /\ exit_code = Some(1)
  /\ ~transmitted
  /\ state = loaded

\* C5 as stated: every run with llm.require and no client aborts with a
\* non-zero status, transmits nothing and leaves the state file alone,
\* whatever the number of papers that survive filtering.
C5_RequiredAlwaysAborts ==
  (RunEnded /\ RequiredButUnavailable) => AbortedUnsent

\* C5 as amended: so does every such run in which at least one paper
\* survives filtering, and it builds no digest; a run in which none survives
\* returns through the "no new papers" branch before the client is looked at.
C5_RequiredAbortsWithPapers ==
  (RunEnded /\ RequiredButUnavailable) =>
    IF survivors # <<>>
    THEN AbortedUnsent /\ digest = None
    ELSE digest = Some(<<>>) /\ (pc = "done" => exit_code = Some(0))

\* A run with papers left was aborted because the required client is
\* missing.
C5_Witness ==
  /\ pc = "aborted"
  /\ RequiredButUnavailable
  /\ Len(survivors) >= 1
  /\ digest = None

\* C6: window_start is the time the state file's last_run holds when it
\* parses, and now - lookback_hours when last_run is absent or does not
\* parse; the window stage keeps exactly the collected papers with
\* published >= window_start, and no paper published before window_start is
\* in the digest.
C6_WindowInclusive ==
  pc # "idle" =>
    /\ \A t \in 0..MaxRuns : loaded.last_run = IsoFormat(t) => window_start = t
    /\ loaded.last_run \in {None, <<"garbage">>} =>
         window_start = now_utc - cfg.lookback_hours
    /\ pc = "windowed" =>
         /\ \A i \in 1..Len(collected) :
              (\E j \in 1..Len(papers) : papers[j] = collected[i])
                <=> collected[i].published >= window_start
         /\ \A i, j \in 1..Len(papers) :
              i < j => \E k, l \in 1..Len(collected) :
                         k < l /\ collected[k] = papers[i] /\ collected[l] = papers[j]
    /\ \A i \in 1..Len(Emitted) : Emitted[i].published >= window_start

\* The window stage has kept a paper published exactly at a window_start
\* read from last_run and dropped one published before it.
C6_Witness ==
  /\ pc = "windowed"
  /\ Parseable(loaded.last_run)
  /\ \E i \in 1..Len(collected) : collected[i].published = window_start
  /\ \E i \in 1..Len(collected) : collected[i].published < window_start
  /\ Len(papers) = 1

Scored(p) == ~IsNone(p.relevance_score)

\* C7: the digest never has more than max_papers papers; when a minimum
\* relevance score above 0 is configured and the run has a client, every
\* emitted paper has a relevance_score, at least the minimum (a paper left
\* unscored by the max_llm_eval cap or by a failed call is not emitted); and
\* without a client the threshold filter drops nothing.
C7_BoundedAndAboveThreshold ==
  /\ Len(Emitted) <= cfg.max_papers
  /\ (client /\ cfg.min_relevance_score > 0) =>
       \A i \in 1..Len(Emitted) :
         /\ Scored(Emitted[i])
         /\ Emitted[i].relevance_score[1] >= cfg.min_relevance_score
         /\ Emitted[i].id \notin failed
  /\ (pc = "thresholded" /\ ~client) =>
       /\ Len(papers) = Len(survivors)
       /\ papers = SortByFinalScore(SortByHits(survivors), cfg)

\* A digest built with a client and a positive threshold, which emits a
\* paper and leaves out one the LLM did not score.
C7_Witness ==
  /\ pc = "built"
  /\ client
  /\ cfg.min_relevance_score > 0
  /\ Len(Emitted) >= 1
  /\ \E i \in 1..Len(survivors) :
       /\ survivors[i].id \notin Range(called) \/ survivors[i].id \in failed
       /\ survivors[i].id \notin Range(Ids(Emitted))

\* The first position of collected whose paper has fingerprint fp, among the
\* positions in among; 0 when there is none.
FirstWith(fp, among) ==
  IF \E i \in among : Fingerprint(collected[i]) = fp
  THEN CHOOSE i \in among :
         /\ Fingerprint(collected[i]) = fp
         /\ \A j \in among : Fingerprint(collected[j]) = fp => i <= j
  ELSE 0

InWindow == {i \in 1..Len(collected) : collected[i].published >= window_start}

\* The run went past dedupe.
Deduped == pc \notin {"idle", "collected", "windowed"}

\* C8 as stated: dedupe sees the whole collector output, so a paper that is
\* past dedupe (and any paper of the digest) is the first collected paper
\* with its fingerprint.
C8_FirstCollectedOnly ==
  Deduped =>
    \A i \in 1..Len(papers) :
      collected[FirstWith(Fingerprint(papers[i]), 1..Len(collected))].id = papers[i].id

\* C8 as amended: the stages run in the order collect, time-window filter,
\* deduplicate, keyword filter, rank; dedupe sees only the papers with
\* published >= window_start, so a paper that is past dedupe (and any paper
\* of the digest) is the first of those, in collection order, with its
\* fingerprint.
C8_FirstInWindowOnly ==
  /\ pc = "windowed" =>
       /\ Len(papers) = Cardinality(InWindow)
       /\ \A i \in 1..Len(papers) : papers[i].published >= window_start
  /\ Deduped =>
       /\ \A i \in 1..Len(papers) :
            /\ FirstWith(Fingerprint(papers[i]), InWindow) # 0
            /\ collected[FirstWith(Fingerprint(papers[i]), InWindow)].id = papers[i].id
       /\ \A i \in 1..Len(Emitted) :
            collected[FirstWith(Fingerprint(Emitted[i]), InWindow)].id = Emitted[i].id

\* A digest holds a paper that was collected after a paper with the same
\* fingerprint, the earlier one being older than the window.
C8_Witness ==
  /\ pc = "built"
  /\ \E i \in 1..Len(Emitted) :
       \E k, l \in 1..Len(collected) :
         /\ k < l
         /\ collected[l].id = Emitted[i].id
         /\ Fingerprint(collected[k]) = Fingerprint(collected[l])
         /\ collected[k].published < window_start

\* What the next run, one tick later and with the same feeds, would select
\* from the state file as it is now.
NextRunSelected == Selected(state, Ids(collected), now_utc + 1, cfg)

\* The state file is written only by the save that ends a non-dry-run run,
\* and with email enabled only after send_email returned.
SavedOnlyAfterSend ==
  /\ pc # "done" => state = loaded
  /\ (pc = "done" /\ state # loaded) =>
       /\ ~args.dry_run
       /\ args.no_email \/ transmitted
  /\ pc = "aborted" => state = loaded /\ exit_code = Some(1)

\* C9 as stated: the state file is written only at the successful end of a
\* non-dry-run run, after the transmission; a run that ends with an
\* exception leaves last_run and sent_ids as they were, so that the next run
\* selects the papers this run selected.
C9_FailedRunRepeats ==
  /\ SavedOnlyAfterSend
  /\ (pc = "aborted" /\ Filtered) => NextRunSelected = Ids(survivors)

\* C9 as amended: ... so that the next run, given the same feeds, selects
\* the papers this run selected whenever the state file holds a last_run
\* (the window start is then unchanged); when it holds none, the window
\* start is now - lookback_hours, which moves with the clock.
C9_FailedRunRepeatsFromLastRun ==
  /\ SavedOnlyAfterSend
  /\ (pc = "aborted" /\ Filtered /\ Parseable(state.last_run)) =>
       NextRunSelected = Ids(survivors)

\* The transmission of a digest with a paper failed in a run that read its
\* window start from last_run.
C9_Witness ==
  /\ pc = "aborted"
  /\ Len(Emitted) >= 1
  /\ ~transmitted
  /\ ~args.no_email
  /\ Parseable(loaded.last_run)
  /\ loaded.sent_ids # <<>>

\* The papers whose relevance call raised are all in the list, unscored.
FailedKeptUnscored ==
  \A id \in failed :
    \E i \in 1..Len(papers) :
      /\ papers[i].id = id
      /\ IsNone(papers[i].relevance_score)
      /\ IsNone(papers[i].relevance_reason)

\* The relevance loop called llm_relevance for the first papers of the
\* list, in order, and the list is in descending keyword_hits order.
CalledInPhase1Order ==
  /\ called = Ids(SubSeq(papers, 1, Len(called)))
  /\ \A i, j \in 1..Len(papers) : i < j => papers[i].keyword_hits >= papers[j].keyword_hits
  /\ pc = "scored" => Len(called) = IF client THEN EvalCount(papers, cfg) ELSE 0

\* The list is in descending order of final_score, where an unscored paper
\* counts keyword_hits + source_weight.
RankedByFallback ==
  \A i, j \in 1..Len(papers) :
    i < j =>
      (IF IsNone(papers[i].relevance_score) THEN papers[i].keyword_hits
       ELSE papers[i].relevance_score[1])
        + (IF papers[i].source_group = "nature" THEN 1 ELSE 0)
      >= final_score(papers[j], cfg)

\* A failed relevance call does not end the run: a run that aborts after
\* one has built its digest (the abort is the transmission's).
FailureDoesNotAbort == (failed # {} /\ pc = "aborted") => DigestBuilt

\* C10 as stated: a paper whose relevance call failed keeps relevance_score
\* and relevance_reason unset, the other calls are made, the run goes on,
\* and the paper is still a candidate, ranked by its fallback score, when
\* the list is cut to max_papers.
C10_FailedStaysCandidate ==
  /\ pc \in {"scoring", "scored"} => FailedKeptUnscored /\ CalledInPhase1Order
  /\ pc = "ranked" => FailedKeptUnscored /\ RankedByFallback
  /\ pc = "thresholded" => FailedKeptUnscored /\ RankedByFallback
  /\ FailureDoesNotAbort

\* C10 as amended: ... and the paper is still a candidate, ranked by its
\* fallback score, when the list is cut to max_papers, provided no minimum
\* relevance score above 0 is configured; with one, the threshold filter
\* drops the paper as unscored.
C10_FailedStaysCandidateWithoutThreshold ==
  /\ pc \in {"scoring", "scored"} => FailedKeptUnscored /\ CalledInPhase1Order
  /\ pc = "ranked" => FailedKeptUnscored /\ RankedByFallback
  /\ pc = "thresholded" =>
       /\ RankedByFallback
       /\ IF cfg.min_relevance_score > 0
          THEN \A i \in 1..Len(papers) : papers[i].id \notin failed
          ELSE FailedKeptUnscored
  /\ FailureDoesNotAbort

\* The first of two relevance calls failed, the second was made and gave a
\* score, and the failed paper is in the list that is about to be cut.
C10_Witness ==
  /\ pc = "thresholded"
  /\ Len(called) = 2
  /\ called[1] \in failed
  /\ called[2] \notin failed
  /\ \E i \in 1..Len(papers) : papers[i].id = called[1]

\* The place of the paper with this id in a list.
PosIn(ps, id) == CHOOSE i \in 1..Len(ps) : ps[i].id = id

\* p stands before q after Phase 1: more keyword_hits, or as many and
\* earlier in the filter output.
Phase1Before(p, q) ==
  \/ p.keyword_hits > q.keyword_hits
  \/ /\ p.keyword_hits = q.keyword_hits
     /\ PosIn(survivors, p.id) < PosIn(survivors, q.id)

\* The score C11 ranks by: relevance_score if set, else keyword_hits, plus
\* the weight configured for the source group, 0 when none is.
ClaimedScore(p) ==
  (IF Scored(p) THEN p.relevance_score[1] ELSE p.keyword_hits)
    + (IF p.source_group \in DOMAIN cfg.source_weight
       THEN cfg.source_weight[p.source_group] ELSE 0)

\* A list in the order C11 gives: descending ClaimedScore, equal scores in
\* Phase-1 order.
InFinalOrder(ps) ==
  \A i, j \in 1..Len(ps) :
    i < j =>
      \/ ClaimedScore(ps[i]) > ClaimedScore(ps[j])
      \/ /\ ClaimedScore(ps[i]) = ClaimedScore(ps[j])
         /\ Phase1Before(ps[i], ps[j])

\* The list holds the papers of the filter output, each once.
SamePapersAsFiltered ==
  /\ Len(papers) = Len(survivors)
  /\ Range(Ids(papers)) = Range(Ids(survivors))

\* C11: after Phase 1 the list is the filter output in descending
\* keyword_hits order, equal keyword_hits in filter output order; after the
\* final ranking it is the same papers in descending order of final_score =
\* (relevance_score if set, else keyword_hits) + source_weight (0 for a group
\* without a weight), two papers of equal final_score in the relative order
\* they had after Phase 1; and the digest keeps that order.
C11_FinalOrderStable ==
  /\ pc = "sorted" =>
       /\ SamePapersAsFiltered
       /\ \A i, j \in 1..Len(papers) : i < j => Phase1Before(papers[i], papers[j])
  /\ pc = "ranked" =>
       /\ SamePapersAsFiltered
       /\ InFinalOrder(papers)
       /\ \A i \in 1..Len(papers) : final_score(papers[i], cfg) = ClaimedScore(papers[i])
  /\ pc \in {"thresholded", "built", "sent", "done"} => InFinalOrder(papers)
  /\ InFinalOrder(Emitted)

\* The final ranking left two papers of equal final_score in their Phase-1
\* order, which is not the order the filter put them out in, one of them
\* ranked by a weighted source group.
C11_Witness ==
  /\ pc = "ranked"
  /\ \E i, j \in 1..Len(papers) :
       /\ i < j
       /\ ClaimedScore(papers[i]) = ClaimedScore(papers[j])
       /\ papers[i].keyword_hits > papers[j].keyword_hits
       /\ PosIn(survivors, papers[i].id) > PosIn(survivors, papers[j].id)
       /\ papers[j].source_group \in DOMAIN cfg.source_weight

\* A non-dry-run run with papers has saved and returned.
SavedRunEnded == pc = "done" /\ ~args.dry_run /\ survivors # <<>>

\* The papers that passed the time-window and keyword filters of the run and
\* are not in its digest: dropped by the minimum-relevance filter or by the
\* cut to max_papers.
LeftOut ==
  {survivors[i] : i \in {j \in 1..Len(survivors) :
                           survivors[j].id \notin Range(Ids(Emitted))}}

\* The times of the runs that can follow this one.
LaterTimes == (now_utc + 1)..(MaxRuns + 1)

\* The paper, reported unchanged by the feeds, passes the time window of a
\* run at time t that loads the state file as it is now.
InLaterWindow(p, t) ==
  MakePaper(Universe[p.id], t).published >= WindowStart(state.last_run, t, cfg)

\* The entry has a parseable date, and it is before this run's time.
DatedBeforeRun(p) ==
  /\ ~IsNone(Universe[p.id].date)
  /\ Universe[p.id].date[1] < now_utc

\* No run moves last_run back: the time a run loads is before its own, and
\* the time it leaves in the state file is not before the one it loaded.
LastRunNeverGoesBack ==
  /\ (pc # "idle" /\ Parseable(loaded.last_run)) => ParseIso(loaded.last_run) < now_utc
  /\ Parseable(loaded.last_run) =>
       /\ Parseable(state.last_run)
       /\ ParseIso(state.last_run) >= ParseIso(loaded.last_run)

\* C12 as stated: a paper left out of the digest of a non-dry-run run is not
\* recorded in sent_ids and, reported unchanged, is emitted by some later
\* run; so it passes the time window of the next run (a paper that does not
\* passes no later window either, last_run never going back).
C12_LeftOutComesBack ==
  SavedRunEnded =>
    \A p \in LeftOut :
      /\ Fingerprint(p) \notin Range(state.sent_ids)
      /\ InLaterWindow(p, now_utc + 1)

\* C12 as amended: a paper left out of the digest of a non-dry-run run is
\* not recorded in sent_ids by that run; the run writes its own time to
\* last_run, and no later run moves last_run back, so that the paper,
\* reported unchanged, passes the time window of a later run only when it
\* has no parseable date (published is then the collection time) or a date
\* that is not before the run's time; a paper dated before the run's time is
\* selected by no later run, and no run emits a paper published before the
\* last_run it loaded.
C12_LeftOutComesBackOnlyInWindow ==
  /\ LastRunNeverGoesBack
  /\ \A i \in 1..Len(Emitted) :
       Parseable(loaded.last_run) => Emitted[i].published >= ParseIso(loaded.last_run)
  /\ SavedRunEnded =>
       /\ state.last_run = IsoFormat(now_utc)
       /\ \A p \in LeftOut :
            /\ Fingerprint(p) \notin Range(state.sent_ids)
            /\ \A t \in LaterTimes :
                 /\ InLaterWindow(p, t) <=> ~DatedBeforeRun(p)
                 /\ DatedBeforeRun(p) =>
                      p.id \notin Range(Selected(state, Ids(collected), t, cfg))

\* A run that saved left out of its digest, by the cut to max_papers, a
\* paper dated before the run's time.
C12_Witness ==
  /\ SavedRunEnded
  /\ \E p \in LeftOut :
       /\ DatedBeforeRun(p)
       /\ \/ ~client
          \/ cfg.min_relevance_score = 0
          \/ Scored(p) /\ p.relevance_score[1] >= cfg.min_relevance_score

====
